---- MODULE Spec2Model ----
(***************************************************************************)
(* Model of auto-clear-cache, src/vite-plugin-version.js.                  *)
(*                                                                         *)
(* checkVersionAndReload (lines 26-57) is modelled statement by statement: *)
(* the program counter pc names the statement that runs next.  The browser *)
(* objects the function touches are the state: localStorage (storage), the *)
(* CacheStorage object (caches), and location.reload (counted in reloads). *)
(* JavaScript values are tagged records, so that the truthiness test and   *)
(* the strict comparison of line 38 and the string conversion done by      *)
(* localStorage.setItem on line 53 are computed as the language does.      *)
(***************************************************************************)
EXTENDS Integers, Sequences, FiniteSets

(* ----------------------------- bounds --------------------------------- *)

\* number of calls of checkVersionAndReload (page loads) in one behaviour
MaxLoads == 2

\* number of named caches the origin can hold
MaxCaches == 2

\* number of invocations of closeBundle in one behaviour
MaxBuilds == 2

\* number of milliseconds the clock can advance in one behaviour
MaxTicks == 3

(* ------------------------- JavaScript values -------------------------- *)

JSNull == [t |-> "null", s |-> "", n |-> 0]

JSUndefined == [t |-> "undefined", s |-> "", n |-> 0]

JSString(str) == [t |-> "string", s |-> str, n |-> 0]

JSNumber(num) == [t |-> "number", s |-> "", n |-> num]

\* ToBoolean, as applied to the left operand of && on line 38
Truthy(x) ==
  CASE x.t = "string" -> x.s # ""
    [] x.t = "number" -> x.n # 0
    [] OTHER -> FALSE

\* the operator !== of line 38: same type and same value, or unequal
StrictNotEqual(a, b) == ~(a.t = b.t /\ a.s = b.s /\ a.n = b.n)

Digit(d) ==
  CASE d = 0 -> "0" [] d = 1 -> "1" [] d = 2 -> "2" [] d = 3 -> "3"
    [] d = 4 -> "4" [] d = 5 -> "5" [] d = 6 -> "6" [] d = 7 -> "7"
    [] d = 8 -> "8" [] d = 9 -> "9"

RECURSIVE ToDecimal(_)
\* Number.prototype.toString for a non-negative integer
ToDecimal(num) ==
  IF num < 10 THEN Digit(num) ELSE ToDecimal(num \div 10) \o Digit(num % 10)

\* the conversion localStorage.setItem applies to its value argument
JSToString(x) ==
  CASE x.t = "string" -> x.s
    [] x.t = "number" -> ToDecimal(x.n)
    [] x.t = "undefined" -> "undefined"
    [] OTHER -> "null"

(* ------------------------------ inputs -------------------------------- *)

\* the option localStorageKey, at its default
localStorageKey == "app_version"

\* a key the host application keeps in the same origin's storage
OtherKey == "theme"

\* version identifiers as the emitter writes them: Date.now().toString()
Identifiers == {ToDecimal(100), ToDecimal(200)}

\* what the field version of a parsed body can be: an identifier, the
\* empty string, a number, or undefined when the field is missing
VersionValues ==
  {JSString(v) : v \in Identifiers \cup {""}} \cup {JSNumber(100), JSUndefined}

\* response bodies: text that is not JSON, the JSON null, a JSON object
Bodies ==
  {[kind |-> "notjson", version |-> JSUndefined],
   [kind |-> "null", version |-> JSUndefined]}
    \cup {[kind |-> "object", version |-> v] : v \in VersionValues}

\* fetch resolves for every HTTP status; 200 and 404 stand for ok, not ok
Statuses == {200, 404}

Responses == [status : Statuses, body : Bodies]

NoResponse == [status |-> 0, body |-> [kind |-> "none", version |-> JSUndefined]]

CacheNames == 1..MaxCaches

\* what a previous session can have left under localStorageKey
StorableStrings == {JSToString(v) : v \in VersionValues}

EmptyStorage == [k \in {} |-> ""]

(* ------------------------------- state -------------------------------- *)

VARIABLES
  storage,            \* localStorage: a function from the keys present to strings
  caches,             \* the names held by the CacheStorage object
  hasCaches,          \* "caches" in window
  pc,                 \* the statement of checkVersionAndReload that runs next
  clearLocalStorage,  \* option of the current call
  clearCache,         \* option of the current call
  res,                \* the Response of line 33
  version,            \* const { version } of line 34
  savedVersion,       \* const savedVersion of line 36
  cacheNames,         \* the names still to be visited by the loop of line 45
  reloads,            \* calls of location.reload() by the current call
  result,             \* the promise returned by the current call
  error,              \* the statement whose error the catch block received
  loads,              \* calls of checkVersionAndReload so far
  storage0,           \* storage when the current call started
  caches0,            \* caches when the current call started
  cleared,            \* localStorage.clear() was called by the current call
  enumerated,         \* caches.keys() was called by the current call
  deleted,            \* the names the current call passed to caches.delete()
  hist,               \* what the calls made so far did, for the claims over several calls
  other,              \* the registers of a second call in flight, suspended at an await
  pair,               \* the storage and caches when the first of two overlapping calls started
  clock,              \* Date.now()
  file,               \* the file at resolve(outDir, fileName)
  emits               \* one record for each invocation of closeBundle so far

vars ==
  <<storage, caches, hasCaches, pc, clearLocalStorage, clearCache, res,
    version, savedVersion, cacheNames, reloads, result, error, loads,
    storage0, caches0, cleared, enumerated, deleted, hist, other, pair,
    clock, file, emits>>

\* the state of the Version Emitter
emitterVars == <<clock, file, emits>>

\* the registers of one call of checkVersionAndReload, as a record
Context(p, cls, cc, r, v, sv, names, n, outcome, err, s0, c0, cl, en, del) ==
  [pc |-> p, clearLocalStorage |-> cls, clearCache |-> cc, res |-> r,
   version |-> v, savedVersion |-> sv, cacheNames |-> names, reloads |-> n,
   result |-> outcome, error |-> err, storage0 |-> s0, caches0 |-> c0,
   cleared |-> cl, enumerated |-> en, deleted |-> del]

\* localStorage.getItem
GetItem(store, key) ==
  IF key \in DOMAIN store THEN JSString(store[key]) ELSE JSNull

\* variant of line 53 that stores the JSON text of the value:
\* localStorage.setItem(localStorageKey, JSON.stringify(version))
SetItem_Stringify(store, key, value) ==
  [k \in DOMAIN store \cup {key} |->
     IF k = key THEN "\"" \o JSToString(value) \o "\"" ELSE store[k]]

\* localStorage.setItem
SetItem(store, key, value) ==
  [k \in DOMAIN store \cup {key} |-> IF k = key THEN JSToString(value) ELSE store[k]]

\* no second call is in flight
NoContext ==
  Context("none", FALSE, FALSE, NoResponse, JSUndefined, JSNull, <<>>, 0,
          "none", "none", EmptyStorage, {}, FALSE, FALSE, {})

NoPair == [active |-> FALSE, storage |-> EmptyStorage, caches |-> {}, calls |-> 0]

NoHistory ==
  [prevVersion |-> JSUndefined, prevSettled |-> FALSE, totalReloads |-> 0,
   fetched |-> {}, clearAll |-> TRUE]

\* the value of Date.now() when a behaviour starts
ClockStart == 100

\* no file at the output path
NoFile == [exists |-> FALSE, text |-> ""]

InitialStorages ==
  {s \in UNION {[D -> StorableStrings \cup {"dark"}] : D \in SUBSET {localStorageKey, OtherKey}} :
     /\ localStorageKey \in DOMAIN s => s[localStorageKey] \in StorableStrings
     /\ OtherKey \in DOMAIN s => s[OtherKey] = "dark"}

Init ==
  /\ storage \in InitialStorages
  /\ hasCaches \in BOOLEAN
  /\ caches \in (IF hasCaches THEN SUBSET CacheNames ELSE {{}})
  /\ pc = "idle"
  /\ clearLocalStorage = TRUE
  /\ clearCache = TRUE
  /\ res = NoResponse
  /\ version = JSUndefined
  /\ savedVersion = JSNull
  /\ cacheNames = <<>>
  /\ reloads = 0
  /\ result = "none"
  /\ error = "none"
  /\ loads = 0
  /\ storage0 = storage
  /\ caches0 = caches
  /\ cleared = FALSE
  /\ enumerated = FALSE
  /\ deleted = {}
  /\ hist = NoHistory
  /\ other = NoContext
  /\ pair = NoPair
  /\ clock = ClockStart
  /\ file = NoFile
  /\ emits = <<>>

(* --------------------- checkVersionAndReload -------------------------- *)

\* variant of line 38 without the existence test: savedVersion !== version
Mismatch_NoExistenceTest(saved, fetched) == StrictNotEqual(saved, fetched)

\* variant of line 38 without the comparison: if (savedVersion)
Mismatch_NoComparison(saved, fetched) == Truthy(saved)

\* line 38: savedVersion && savedVersion !== version
Mismatch(saved, fetched) == Truthy(saved) /\ StrictNotEqual(saved, fetched)

\* variant of line 41 that removes the version key only:
\* if (clearLocalStorage) localStorage.removeItem(localStorageKey)
ClearStorage_KeyOnly(store, enabled) ==
  IF enabled THEN [k \in DOMAIN store \ {localStorageKey} |-> store[k]] ELSE store

\* variant of line 41 that never clears
ClearStorage_Never(store, enabled) == store

\* variant of line 41 that ignores the option: localStorage.clear()
ClearStorage_Always(store, enabled) == EmptyStorage

\* line 41: if (clearLocalStorage) localStorage.clear()
ClearStorage(store, enabled) == IF enabled THEN EmptyStorage ELSE store

\* variant of line 43 without the feature test: if (clearCache)
ShouldClearCaches_NoFeatureTest(enabled, present) == enabled

\* variant of line 43 that ignores the option: if ("caches" in window)
ShouldClearCaches_IgnoreOption(enabled, present) == present

\* line 43: clearCache && "caches" in window
ShouldClearCaches(enabled, present) == enabled /\ present

\* the orders in which caches.keys() can list the names of a set
Orderings(S) ==
  {q \in [1..Cardinality(S) -> S] : \A i, j \in 1..Cardinality(S) : i # j => q[i] # q[j]}

\* variant of lines 45-50 in which the reload is skipped after the loop
LoopTarget_SkipReload(names) == IF names = <<>> THEN "setItem" ELSE "cachesDelete"

\* variant of lines 45-47 without the loop: the names are listed, none deleted
LoopTarget_NoLoop(names) == "reload"

\* where the loop of lines 45-47 goes once names are left to visit, or none
LoopTarget(names) == IF names = <<>> THEN "reload" ELSE "cachesDelete"

\* variant of lines 54-56 in which the catch block rethrows
CatchResult_Rethrow == "rejected"

\* lines 54-56: the catch block logs the error and the promise resolves
CatchResult == "resolved"

Catch(statement) ==
  /\ pc' = "done"
  /\ error' = statement
  /\ result' = CatchResult

\* lines 26-31: the call, with its options; the promise is pending
Call ==
  /\ pc \in {"idle", "done"}
  /\ loads < MaxLoads
  /\ loads' = loads + 1
  /\ clearLocalStorage' \in BOOLEAN
  /\ clearCache' \in BOOLEAN
  /\ pc' = "fetch"
  /\ res' = NoResponse
  /\ version' = JSUndefined
  /\ savedVersion' = JSNull
  /\ cacheNames' = <<>>
  /\ reloads' = 0
  /\ result' = "pending"
  /\ error' = "none"
  /\ storage0' = storage
  /\ caches0' = caches
  /\ cleared' = FALSE
  /\ enumerated' = FALSE
  /\ deleted' = {}
  /\ UNCHANGED <<storage, caches, hasCaches>>
  /\ hist' = [hist EXCEPT !.prevVersion = version,
                          !.prevSettled = (pc = "done" /\ error = "none" /\ result = "resolved"),
                          !.clearAll = (@ /\ clearLocalStorage')]
  /\ pair' = [pair EXCEPT !.calls = IF pair.active THEN @ + 1 ELSE @]
  /\ UNCHANGED <<other, emitterVars>>

\* line 33: await fetch(path, { cache: "no-store" }); it rejects on a network
\* failure and resolves with the response for every HTTP status
Fetch ==
  /\ pc = "fetch"
  /\ \/ /\ Catch("fetch")
        /\ UNCHANGED res
     \/ /\ res' \in Responses
        /\ pc' = "json"
        /\ UNCHANGED <<error, result>>
  /\ UNCHANGED <<storage, caches, hasCaches, clearLocalStorage, clearCache,
                 version, savedVersion, cacheNames, reloads, loads, storage0,
                 caches0, cleared, enumerated, deleted>>
  /\ UNCHANGED <<hist, other, pair, emitterVars>>

\* variant of line 34 that stores the fetched version as soon as it is read,
\* before the saved one is compared
ResJson_StoreEarly ==
  /\ pc = "json"
  /\ IF res.body.kind = "notjson"
       THEN Catch("json") /\ UNCHANGED <<version, storage, hist>>
       ELSE IF res.body.kind = "null"
         THEN Catch("destructure") /\ UNCHANGED <<version, storage, hist>>
         ELSE /\ version' = res.body.version
              /\ hist' = [hist EXCEPT !.fetched = @ \cup {version'}]
              /\ storage' = SetItem(storage, localStorageKey, version')
              /\ pc' = "getItem"
              /\ UNCHANGED <<error, result>>
  /\ UNCHANGED <<caches, hasCaches, clearLocalStorage, clearCache,
                 res, savedVersion, cacheNames, reloads, loads, storage0,
                 caches0, cleared, enumerated, deleted>>
  /\ UNCHANGED <<other, pair, emitterVars>>

\* line 34: const { version } = await res.json(); the parse rejects on a body
\* that is not JSON, and destructuring null throws a TypeError
ResJson ==
  /\ pc = "json"
  /\ IF res.body.kind = "notjson"
       THEN Catch("json") /\ UNCHANGED <<version, hist>>
       ELSE IF res.body.kind = "null"
         THEN Catch("destructure") /\ UNCHANGED <<version, hist>>
         ELSE /\ version' = res.body.version
              /\ hist' = [hist EXCEPT !.fetched = @ \cup {version'}]
              /\ pc' = "getItem"
              /\ UNCHANGED <<error, result>>
  /\ UNCHANGED <<storage, caches, hasCaches, clearLocalStorage, clearCache,
                 res, savedVersion, cacheNames, reloads, loads, storage0,
                 caches0, cleared, enumerated, deleted>>
  /\ UNCHANGED <<other, pair, emitterVars>>

\* lines 36-38: read the saved version (the storage access can be denied)
\* and branch on the comparison
ReadSaved ==
  /\ pc = "getItem"
  /\ \/ /\ Catch("getItem")
        /\ UNCHANGED savedVersion
     \/ /\ savedVersion' = GetItem(storage, localStorageKey)
        /\ pc' = IF Mismatch(savedVersion', version) THEN "clear" ELSE "setItem"
        /\ UNCHANGED <<error, result>>
  /\ UNCHANGED <<storage, caches, hasCaches, clearLocalStorage, clearCache,
                 res, version, cacheNames, reloads, loads, storage0, caches0,
                 cleared, enumerated, deleted>>
  /\ UNCHANGED <<hist, other, pair, emitterVars>>

\* line 41: if (clearLocalStorage) localStorage.clear()
Clear ==
  /\ pc = "clear"
  /\ \/ /\ clearLocalStorage
        /\ Catch("clear")
        /\ UNCHANGED <<storage, cleared>>
     \/ /\ storage' = ClearStorage(storage, clearLocalStorage)
        /\ cleared' = clearLocalStorage
        /\ pc' = "cachesKeys"
        /\ UNCHANGED <<error, result>>
  /\ UNCHANGED <<caches, hasCaches, clearLocalStorage, clearCache, res,
                 version, savedVersion, cacheNames, reloads, loads, storage0,
                 caches0, enumerated, deleted>>
  /\ UNCHANGED <<hist, other, pair, emitterVars>>

\* lines 43-44: const cacheNames = await caches.keys(), when enabled
CachesKeys ==
  /\ pc = "cachesKeys"
  /\ IF ShouldClearCaches(clearCache, hasCaches)
       THEN \/ /\ Catch("cachesKeys")
               /\ UNCHANGED <<cacheNames, enumerated>>
            \/ /\ cacheNames' \in Orderings(caches)
               /\ enumerated' = TRUE
               /\ pc' = LoopTarget(cacheNames')
               /\ UNCHANGED <<error, result>>
       ELSE /\ pc' = "reload"
            /\ UNCHANGED <<cacheNames, enumerated, error, result>>
  /\ UNCHANGED <<storage, caches, hasCaches, clearLocalStorage, clearCache,
                 res, version, savedVersion, reloads, loads, storage0,
                 caches0, cleared, deleted>>
  /\ UNCHANGED <<hist, other, pair, emitterVars>>

\* lines 45-47: await caches.delete(name), for the next name of the list
CachesDelete ==
  /\ pc = "cachesDelete"
  /\ \/ /\ Catch("cachesDelete")
        /\ UNCHANGED <<caches, cacheNames, deleted>>
     \/ /\ caches' = caches \ {Head(cacheNames)}
        /\ deleted' = deleted \cup {Head(cacheNames)}
        /\ cacheNames' = Tail(cacheNames)
        /\ pc' = LoopTarget(cacheNames')
        /\ UNCHANGED <<error, result>>
  /\ UNCHANGED <<storage, hasCaches, clearLocalStorage, clearCache, res,
                 version, savedVersion, reloads, loads, storage0, caches0,
                 cleared, enumerated>>
  /\ UNCHANGED <<hist, other, pair, emitterVars>>

\* a call in flight whose page is torn down never settles
Aborted(ctx) ==
  IF ctx.pc \in {"none", "done"}
    THEN ctx
    ELSE [ctx EXCEPT !.pc = "done", !.result = "torn down"]

\* line 50: location.reload(); the navigation either lets the script run on
\* to line 53 or tears the page down first, and then no promise of the page
\* ever settles
Reload ==
  /\ pc = "reload"
  /\ reloads' = reloads + 1
  /\ hist' = [hist EXCEPT !.totalReloads = @ + 1]
  /\ \/ /\ pc' = "setItem"
        /\ UNCHANGED <<result, other>>
     \/ /\ pc' = "done"
        /\ result' = "torn down"
        /\ other' = Aborted(other)
  /\ UNCHANGED <<storage, caches, hasCaches, clearLocalStorage, clearCache,
                 res, version, savedVersion, cacheNames, error, loads,
                 storage0, caches0, cleared, enumerated, deleted>>
  /\ UNCHANGED <<pair, emitterVars>>

\* variant of line 53 that writes the value read on line 36 back:
\* localStorage.setItem(localStorageKey, savedVersion)
WriteSaved_StoresSaved ==
  /\ pc = "setItem"
  /\ \/ /\ Catch("setItem")
        /\ UNCHANGED storage
     \/ /\ storage' = SetItem(storage, localStorageKey, savedVersion)
        /\ pc' = "done"
        /\ result' = "resolved"
        /\ UNCHANGED error
  /\ UNCHANGED <<caches, hasCaches, clearLocalStorage, clearCache, res,
                 version, savedVersion, cacheNames, reloads, loads, storage0,
                 caches0, cleared, enumerated, deleted>>
  /\ UNCHANGED <<hist, other, pair, emitterVars>>

\* line 53: localStorage.setItem(localStorageKey, version)
WriteSaved ==
  /\ pc = "setItem"
  /\ \/ /\ Catch("setItem")
        /\ UNCHANGED storage
     \/ /\ storage' = SetItem(storage, localStorageKey, version)
        /\ pc' = "done"
        /\ result' = "resolved"
        /\ UNCHANGED error
  /\ UNCHANGED <<caches, hasCaches, clearLocalStorage, clearCache, res,
                 version, savedVersion, cacheNames, reloads, loads, storage0,
                 caches0, cleared, enumerated, deleted>>
  /\ UNCHANGED <<hist, other, pair, emitterVars>>

(* ----------------------- two overlapping calls ------------------------- *)

\* the running call is waiting at an await (lines 33, 34, 44, 46): only there
\* can another call of the same page run
Suspended ==
  \/ pc \in {"fetch", "json", "cachesDelete"}
  \/ pc = "cachesKeys" /\ ShouldClearCaches(clearCache, hasCaches)

\* the registers of the running call
Running ==
  Context(pc, clearLocalStorage, clearCache, res, version, savedVersion,
          cacheNames, reloads, result, error, storage0, caches0, cleared,
          enumerated, deleted)

\* the registers become those of ctx
Resume(ctx) ==
  /\ pc' = ctx.pc
  /\ clearLocalStorage' = ctx.clearLocalStorage
  /\ clearCache' = ctx.clearCache
  /\ res' = ctx.res
  /\ version' = ctx.version
  /\ savedVersion' = ctx.savedVersion
  /\ cacheNames' = ctx.cacheNames
  /\ reloads' = ctx.reloads
  /\ result' = ctx.result
  /\ error' = ctx.error
  /\ storage0' = ctx.storage0
  /\ caches0' = ctx.caches0
  /\ cleared' = ctx.cleared
  /\ enumerated' = ctx.enumerated
  /\ deleted' = ctx.deleted

\* lines 26-33: a second call with the same options while the first one is
\* waiting at an await
CallOverlapping ==
  /\ Suspended
  /\ other.pc = "none"
  /\ loads < MaxLoads
  /\ loads' = loads + 1
  /\ other' = Running
  /\ pair' = [active |-> TRUE, storage |-> storage0, caches |-> caches0, calls |-> 2]
  /\ Resume(Context("fetch", clearLocalStorage, clearCache, NoResponse,
                    JSUndefined, JSNull, <<>>, 0, "pending", "none", storage,
                    caches, FALSE, FALSE, {}))
  /\ UNCHANGED <<storage, caches, hasCaches, hist, emitterVars>>

\* the event loop resumes the other call: the running one is waiting at an
\* await or has ended
Switch ==
  /\ Suspended \/ pc = "done"
  /\ other.pc \notin {"none", "done"}
  /\ other' = Running
  /\ Resume(other)
  /\ UNCHANGED <<storage, caches, hasCaches, loads, hist, pair, emitterVars>>

Next ==
  \/ Call
  \/ Fetch
  \/ ResJson
  \/ ReadSaved
  \/ Clear
  \/ CachesKeys
  \/ CachesDelete
  \/ Reload
  \/ WriteSaved

Spec == Init /\ [][Next]_vars

\* the first call of the page
FirstCall == loads = 0 /\ Call

\* one page load in which checkVersionAndReload is called twice
NextOverlap ==
  \/ FirstCall
  \/ CallOverlapping
  \/ Switch
  \/ Fetch
  \/ ResJson
  \/ ReadSaved
  \/ Clear
  \/ CachesKeys
  \/ CachesDelete
  \/ Reload
  \/ WriteSaved

\* a page whose Stored Version is absent or an identifier an earlier call
\* stored
InitOverlap ==
  /\ Init
  /\ localStorageKey \in DOMAIN storage => storage[localStorageKey] \in Identifiers

\* the browser with calls that can overlap
SpecOverlap == InitOverlap /\ [][NextOverlap]_vars

(* ---------------------- versionPlugin.closeBundle ---------------------- *)

\* the state of the browser and of the calls of checkVersionAndReload
guardVars ==
  <<storage, caches, hasCaches, pc, clearLocalStorage, clearCache, res,
    version, savedVersion, cacheNames, reloads, result, error, loads,
    storage0, caches0, cleared, enumerated, deleted, hist, other, pair>>

\* line 17: JSON.stringify({ version }, null, 2)
VersionJson(v) == "{\n  \"version\": \"" \o v \o "\"\n}"

\* variant of line 17 that appends to the file: appendFileSync(filePath, ...)
WriteFileSync_Append(old, text, ok) ==
  IF ok THEN [exists |-> TRUE, text |-> old.text \o text] ELSE old

\* line 17: writeFileSync(filePath, text) replaces the file, or throws when
\* the directory is missing or not writable and leaves the path as it was
WriteFileSync(old, text, ok) ==
  IF ok THEN [exists |-> TRUE, text |-> text] ELSE old

\* variant of lines 19-21 in which the catch block rethrows
EmitterCatchResult_Rethrow == "rejected"

\* lines 19-21: the catch block logs the error and closeBundle resolves
EmitterCatchResult == "resolved"

\* lines 7-22: one invocation of closeBundle; ok is whether the write of line
\* 17 succeeds
CloseBundle ==
  /\ Len(emits) < MaxBuilds
  /\ \E ok \in BOOLEAN :
       LET identifier == ToDecimal(clock)
           written == WriteFileSync(file, VersionJson(identifier), ok)
       IN /\ file' = written
          /\ emits' = Append(emits,
               [now |-> clock,
                version |-> identifier,
                failed |-> ~ok,
                writes |-> 1,
                outcome |-> IF ok THEN "resolved" ELSE EmitterCatchResult,
                before |-> file,
                after |-> written])
  /\ UNCHANGED <<clock, guardVars>>

\* a millisecond passes
Tick ==
  /\ clock < ClockStart + MaxTicks
  /\ clock' = clock + 1
  /\ UNCHANGED <<file, emits, guardVars>>

\* the output directory before the builds: empty, or holding the Version
\* Record of an earlier build
InitEmitter ==
  /\ storage = EmptyStorage
  /\ hasCaches = FALSE
  /\ caches = {}
  /\ pc = "idle"
  /\ clearLocalStorage = TRUE
  /\ clearCache = TRUE
  /\ res = NoResponse
  /\ version = JSUndefined
  /\ savedVersion = JSNull
  /\ cacheNames = <<>>
  /\ reloads = 0
  /\ result = "none"
  /\ error = "none"
  /\ loads = 0
  /\ storage0 = storage
  /\ caches0 = caches
  /\ cleared = FALSE
  /\ enumerated = FALSE
  /\ deleted = {}
  /\ hist = NoHistory
  /\ other = NoContext
  /\ pair = NoPair
  /\ clock = ClockStart
  /\ file \in {NoFile, [exists |-> TRUE, text |-> VersionJson(ToDecimal(ClockStart - 1))]}
  /\ emits = <<>>

NextEmitter ==
  \/ CloseBundle
  \/ Tick

\* the builds
SpecEmitter == InitEmitter /\ [][NextEmitter]_vars

\* a statement of a call that has started: the awaited operations of lines
\* 33, 34, 44 and 46 complete, and the statements between them run at once
Step ==
  \/ Fetch
  \/ ResJson
  \/ ReadSaved
  \/ Clear
  \/ CachesKeys
  \/ CachesDelete
  \/ Reload
  \/ WriteSaved

\* one call, from any state of the storage and the caches an earlier call or
\* the host application can have left
NextLive ==
  \/ FirstCall
  \/ Fetch
  \/ ResJson
  \/ ReadSaved
  \/ Clear
  \/ CachesKeys
  \/ CachesDelete
  \/ Reload
  \/ WriteSaved

\* the browser when every awaited operation eventually resolves or rejects
SpecLive == Init /\ [][NextLive]_vars /\ WF_vars(Step)

TypeOK ==
  /\ pc \in {"idle", "fetch", "json", "getItem", "clear", "cachesKeys",
             "cachesDelete", "reload", "setItem", "done"}
  /\ caches \subseteq CacheNames
  /\ reloads \in 0..1
  /\ result \in {"none", "pending", "resolved", "rejected", "torn down"}
  /\ loads \in 0..MaxLoads

(* -------------------------- the current call -------------------------- *)

\* the Stored Version the current call found when it started
StoredAtStart == GetItem(storage0, localStorageKey)

\* the current call started with Stored Version v1 and fetched identifier v2
RunOf(v1, v2) ==
  /\ loads >= 1
  /\ StoredAtStart = JSString(v1)
  /\ version = JSString(v2)

\* the current call has ended and none of its statements failed
EndedClean == pc = "done" /\ error = "none"

\* every key of a except localStorageKey is in b with the same value
OtherKeysKept(a, b) ==
  \A k \in DOMAIN a \ {localStorageKey} : k \in DOMAIN b /\ b[k] = a[k]

(* ------------------------------ claims -------------------------------- *)

\* C1: a call that starts with Stored Version v1 and fetches an identifier
\* v2 # v1 calls location.reload() exactly once, for every setting of
\* clearLocalStorage and clearCache: never more than once while it runs, and
\* once when it has ended with none of its statements failing.
C1_ReloadExactlyOnce ==
  \A v1, v2 \in Identifiers :
    (v1 # v2 /\ RunOf(v1, v2)) =>
      /\ reloads <= 1
      /\ EndedClean => reloads = 1

C1_Witness ==
  /\ RunOf("100", "200")
  /\ EndedClean
  /\ reloads = 1
  /\ ~clearLocalStorage
  /\ clearCache
  /\ deleted # {}

\* C2: whenever location.reload() is called, localStorage is already empty
\* if clearLocalStorage is set, and no named cache is left if clearCache is
\* set: the reload never precedes the clearing.
C2_ClearedBeforeReload ==
  [][reloads' = reloads + 1 =>
       /\ clearLocalStorage => storage = EmptyStorage
       /\ clearCache => caches = {}
       /\ clearCache /\ hasCaches => deleted = caches0]_vars

C2_Witness ==
  /\ RunOf("100", "200")
  /\ pc = "setItem"
  /\ reloads = 1
  /\ clearLocalStorage
  /\ clearCache
  /\ OtherKey \in DOMAIN storage0
  /\ Cardinality(caches0) = MaxCaches
  /\ storage = EmptyStorage
  /\ caches = {}

\* C3: a call that starts with no value under localStorageKey never calls
\* location.reload(), never clears localStorage, never enumerates or deletes
\* a cache, and, once it has ended without a failure after fetching the
\* identifier v, has added localStorageKey -> v to the storage and nothing else.
C3_FirstRun ==
  (loads >= 1 /\ StoredAtStart = JSNull) =>
    /\ reloads = 0
    /\ ~cleared
    /\ ~enumerated
    /\ deleted = {}
    /\ caches = caches0
    /\ \A v \in Identifiers :
         (EndedClean /\ version = JSString(v)) =>
           /\ GetItem(storage, localStorageKey) = JSString(v)
           /\ storage = SetItem(storage0, localStorageKey, JSString(v))

C3_Witness ==
  /\ loads >= 1
  /\ StoredAtStart = JSNull
  /\ EndedClean
  /\ version = JSString("200")
  /\ result = "resolved"
  /\ storage[localStorageKey] = "200"
  /\ OtherKey \in DOMAIN storage
  /\ caches # {}

\* C4: a call that fetches the identifier v while the Stored Version is v
\* never calls location.reload(), never clears localStorage and never
\* deletes a cache; the storage and the caches stay as they were.
C4_SameVersion ==
  \A v \in Identifiers :
    RunOf(v, v) =>
      /\ reloads = 0
      /\ ~cleared
      /\ ~enumerated
      /\ deleted = {}
      /\ caches = caches0
      /\ storage = storage0

C4_Witness ==
  /\ RunOf("100", "100")
  /\ EndedClean
  /\ result = "resolved"
  /\ clearLocalStorage
  /\ clearCache
  /\ OtherKey \in DOMAIN storage
  /\ caches # {}

\* C5: when the fetch rejects or the body is not JSON, the call resolves (no
\* error escapes), the storage and the caches are as they were when it
\* started, and location.reload() was not called.
C5_FetchOrParseFailure ==
  (pc = "done" /\ error \in {"fetch", "json"}) =>
    /\ result = "resolved"
    /\ storage = storage0
    /\ caches = caches0
    /\ ~cleared
    /\ deleted = {}
    /\ reloads = 0

C5_Witness ==
  /\ pc = "done"
  /\ error = "json"
  /\ res.status = 200
  /\ result = "resolved"
  /\ StoredAtStart = JSString("100")
  /\ caches # {}

\* C6: an error raised by any statement of the call is caught, the call
\* resolves, and location.reload() was not called in that call.
C6_ErrorMeansNoReload ==
  (pc = "done" /\ error # "none") =>
    /\ result = "resolved"
    /\ reloads = 0

\* the response is not the Version Record served with status 200
NotVersionRecord(r) ==
  \/ r.status # 200
  \/ r.body.kind # "object"
  \/ r.body.version.t # "string"

\* C7: a response whose status is not 200, or whose body is not the Version
\* Record, is a failure: the call does not reload, clears nothing and leaves
\* the storage, the Stored Version included, as it was.
C7_BadResponseIsFailure ==
  (loads >= 1 /\ pc \notin {"fetch", "json"} /\ NotVersionRecord(res)) =>
    /\ reloads = 0
    /\ ~cleared
    /\ deleted = {}
    /\ storage = storage0

C9_NoWipeWhenDisabled ==
  \A v1, v2 \in Identifiers :
    (v1 # v2 /\ RunOf(v1, v2) /\ ~clearLocalStorage) =>
      /\ ~cleared
      /\ DOMAIN storage = DOMAIN storage0
      /\ OtherKeysKept(storage0, storage)
      /\ (EndedClean /\ result = "resolved") => storage[localStorageKey] = v2

C9_Witness ==
  /\ RunOf("100", "200")
  /\ ~clearLocalStorage
  /\ EndedClean
  /\ result = "resolved"
  /\ reloads = 1
  /\ storage[localStorageKey] = "200"
  /\ OtherKey \in DOMAIN storage
  /\ storage[OtherKey] = "dark"

\* C10: in a call that starts with Stored Version v1 and fetches v2 # v1 with
\* clearCache disabled, caches.keys() and caches.delete() are never called,
\* the caches stay as they were, and location.reload() is still called once
\* the call has ended without a failure.
C10_NoCacheDeletionWhenDisabled ==
  \A v1, v2 \in Identifiers :
    (v1 # v2 /\ RunOf(v1, v2) /\ ~clearCache) =>
      /\ ~enumerated
      /\ deleted = {}
      /\ caches = caches0
      /\ EndedClean => reloads = 1

C10_Witness ==
  /\ RunOf("200", "100")
  /\ ~clearCache
  /\ clearLocalStorage
  /\ hasCaches
  /\ EndedClean
  /\ reloads = 1
  /\ Cardinality(caches) = MaxCaches

\* C11: a call that starts with Stored Version v1, fetches v2 # v1 with both
\* options enabled and resolves with no statement failing leaves exactly one
\* entry in the storage, localStorageKey -> v2, leaves no named cache, and
\* has called location.reload() exactly once, whatever the storage and the
\* caches held before.
C11_FinalStateAfterMismatch ==
  \A v1, v2 \in Identifiers :
    (/\ v1 # v2
     /\ RunOf(v1, v2)
     /\ clearLocalStorage
     /\ clearCache
     /\ EndedClean
     /\ result = "resolved") =>
      /\ DOMAIN storage = {localStorageKey}
      /\ storage[localStorageKey] = v2
      /\ caches = {}
      /\ reloads = 1

C11_Witness ==
  /\ RunOf("100", "200")
  /\ clearLocalStorage
  /\ clearCache
  /\ EndedClean
  /\ result = "resolved"
  /\ OtherKey \in DOMAIN storage0
  /\ Cardinality(caches0) = MaxCaches
  /\ storage = [k \in {localStorageKey} |-> "200"]
  /\ caches = {}
  /\ reloads = 1

\* the storage a single call leaves when it starts from store, fetches
\* fetched and no statement fails
FinalStorage(store, fetched, cls) ==
  IF Mismatch(GetItem(store, localStorageKey), fetched)
    THEN SetItem(ClearStorage(store, cls), localStorageKey, fetched)
    ELSE SetItem(store, localStorageKey, fetched)

\* the caches such a call leaves
FinalCaches(store, names, fetched, cc) ==
  IF Mismatch(GetItem(store, localStorageKey), fetched) /\ ShouldClearCaches(cc, hasCaches)
    THEN {}
    ELSE names

\* two calls overlapped, both have resolved with no statement failing and
\* no page torn down, and both fetched the identifier v
BothSettled(v) ==
  /\ pair.active
  /\ pair.calls = 2
  /\ pc = "done"
  /\ other.pc = "done"
  /\ error = "none"
  /\ other.error = "none"
  /\ result = "resolved"
  /\ other.result = "resolved"
  /\ version = JSString(v)
  /\ other.version = JSString(v)

\* C12: when two calls with the same options overlap and both resolve after
\* fetching the same identifier v, the storage and the caches end as one call
\* alone would leave them, whatever the order in which the two calls were
\* resumed at their awaits; the Stored Version is v.
C12_OverlapConverges ==
  \A v \in Identifiers :
    BothSettled(v) =>
      /\ storage = FinalStorage(pair.storage, JSString(v), clearLocalStorage)
      /\ caches = FinalCaches(pair.storage, pair.caches, JSString(v), clearCache)
      /\ GetItem(storage, localStorageKey) = JSString(v)

\* both calls took the clear-and-reload branch: the second one was resumed
\* while the first was waiting for caches.keys() or caches.delete()
C12_Witness ==
  /\ BothSettled("200")
  /\ GetItem(pair.storage, localStorageKey) = JSString("100")
  /\ OtherKey \in DOMAIN pair.storage
  /\ ~clearLocalStorage
  /\ clearCache
  /\ reloads = 1
  /\ other.reloads = 1
  /\ Cardinality(pair.caches) = MaxCaches
  /\ deleted # {}
  /\ other.deleted # {}
  /\ storage[localStorageKey] = "200"

\* the string values the field version can have
StringVersions == {x \in VersionValues : x.t = "string"}

\* the call before the current one resolved with no statement failing after
\* fetching x, and the current call fetched x again
SecondRunOf(x) ==
  /\ loads >= 2
  /\ hist.prevSettled
  /\ hist.prevVersion = x
  /\ version = x

\* C13: a call that fetches the same string identifier as the resolved call
\* before it calls no reload, clears nothing and deletes nothing, and leaves
\* the storage and the caches as the first call left them: two calls in
\* succession leave the state one call leaves.
C13_Idempotent ==
  \A x \in StringVersions :
    SecondRunOf(x) =>
      /\ reloads = 0
      /\ ~cleared
      /\ ~enumerated
      /\ deleted = {}
      /\ storage = storage0
      /\ caches = caches0

C13_Witness ==
  /\ SecondRunOf(JSString("200"))
  /\ hist.totalReloads = 1
  /\ EndedClean
  /\ result = "resolved"
  /\ reloads = 0
  /\ storage[localStorageKey] = "200"
  /\ clearLocalStorage
  /\ clearCache

\* C14: when every awaited operation eventually resolves or rejects, the
\* promise of every call is eventually settled and it is never rejected: it
\* resolves, whether or not a statement failed, unless the reload of line 50
\* tears the page down before the function returns.
C14_Terminates ==
  /\ [](result # "rejected")
  /\ (result = "pending") ~> (result \in {"resolved", "torn down"})

\* a call resolved although one of its awaited operations rejected
C14_Witness ==
  /\ pc = "done"
  /\ result = "resolved"
  /\ error = "cachesDelete"
  /\ deleted # {}

\* the invocations i < j of closeBundle whose writes both succeeded
TwoWrites(i, j) ==
  /\ i \in 1..Len(emits)
  /\ j \in 1..Len(emits)
  /\ i < j
  /\ ~emits[i].failed
  /\ ~emits[j].failed

C16_WriteFailureSwallowed ==
  \A i \in 1..Len(emits) :
    emits[i].failed =>
      /\ emits[i].outcome = "resolved"
      /\ emits[i].writes = 1
      /\ emits[i].after = emits[i].before
      /\ i = Len(emits) => file = emits[i].before

C16_Witness ==
  /\ Len(emits) = 2
  /\ ~emits[1].failed
  /\ emits[2].failed
  /\ emits[2].outcome = "resolved"
  /\ emits[2].now > emits[1].now
  /\ file.text = VersionJson(emits[1].version)

\* C17: in a call in which no statement fails and the fetched version is the
\* string x, the clear-and-reload branch is taken if and only if a value is
\* present under localStorageKey and that value is not the string x.
C17_BranchIffPresentAndDifferent ==
  \A x \in StringVersions :
    (loads >= 1 /\ EndedClean /\ version = x) =>
      (reloads = 1 <=>
         (localStorageKey \in DOMAIN storage0 /\ storage0[localStorageKey] # x.s))

\* every call so far ran with clearLocalStorage enabled and every version
\* fetched so far is x: the served version is held fixed
ServedFixed(x) ==
  /\ loads >= 1
  /\ hist.clearAll
  /\ hist.fetched \subseteq {x}

\* C18: over page loads with clearLocalStorage enabled that are all served
\* the same string identifier x, location.reload() is called at most once in
\* total, and every load that ends with no statement failing after the write
\* of line 53 ends with Stored Version x; so the load that follows the reload
\* ends without a reload and with Stored Version x, whether the write that
\* follows the reload was executed or the page was torn down before it.
C18_NoReloadLoop ==
  \A x \in StringVersions :
    ServedFixed(x) =>
      /\ hist.totalReloads <= 1
      /\ (EndedClean /\ result = "resolved" /\ version = x) =>
           GetItem(storage, localStorageKey) = x
      /\ (hist.totalReloads = 1 /\ reloads = 0 /\ EndedClean /\ version = x) =>
           /\ result = "resolved"
           /\ GetItem(storage, localStorageKey) = x

\* the second load after a reload whose page was torn down before line 53
C18_Witness ==
  /\ ServedFixed(JSString("200"))
  /\ hist.fetched = {JSString("200")}
  /\ loads = 2
  /\ hist.totalReloads = 1
  /\ ~hist.prevSettled
  /\ storage0 = EmptyStorage
  /\ reloads = 0
  /\ EndedClean
  /\ result = "resolved"
  /\ storage[localStorageKey] = "200"

\* C19: in a call that starts with Stored Version v1 and fetches v2 # v1 with
\* clearCache enabled in an environment without a cache store, caches.keys()
\* and caches.delete() are never called and raise no error, and once the call
\* has ended with no statement failing the storage was cleared if
\* clearLocalStorage is set and location.reload() was called exactly once.
C19_NoCacheStore ==
  \A v1, v2 \in Identifiers :
    (v1 # v2 /\ RunOf(v1, v2) /\ clearCache /\ ~hasCaches) =>
      /\ ~enumerated
      /\ deleted = {}
      /\ error \notin {"cachesKeys", "cachesDelete"}
      /\ reloads <= 1
      /\ EndedClean =>
           /\ reloads = 1
           /\ cleared = clearLocalStorage
           /\ clearLocalStorage => OtherKey \notin DOMAIN storage

C19_Witness ==
  /\ RunOf("200", "100")
  /\ clearCache
  /\ ~hasCaches
  /\ clearLocalStorage
  /\ OtherKey \in DOMAIN storage0
  /\ EndedClean
  /\ result = "resolved"
  /\ reloads = 1
  /\ storage = [k \in {localStorageKey} |-> "100"]

====
